---- MODULE Spec2Model ----
(***************************************************************************)
(* PTNotifier: the polling/session engine.                                 *)
(*                                                                         *)
(* The model follows src/trackers/base.py (BaseTracker: session            *)
(* construction, SessionState load/save, fetch_notifications, process,     *)
(* _ack_item, the shared rate limiter _fetch_page), the two adapters       *)
(* src/trackers/TorrentDay.py and src/trackers/AmigosShareClub.py, the     *)
(* notifier sinks of src/apps and the orchestrator loop of src/ptn.py.     *)
(*                                                                         *)
(* asyncio is cooperative: one action is the code a task runs between two  *)
(* suspension points (await of network I/O, of asyncio.sleep, of a lock).  *)
(*                                                                         *)
(* Clocks.  `now` is the wall clock of time.time(); time.monotonic() runs  *)
(* at the same rate and its origin is arbitrary, so the model reads both   *)
(* from `now`.  Time is counted in seconds.                                *)
(***************************************************************************)
EXTENDS Integers, Sequences, FiniteSets, TLC

(***************************************************************************)
(* Program constants.                                                      *)
(***************************************************************************)
\* base.py:118-119  processed_ids keeps the last 300 ids
MAX_PROCESSED == 300
\* base.py:155  await asyncio.sleep(3) after a notifier call
DISPATCH_SLEEP == 3
\* base.py:204  REQUEST_DELAY (default 5.0, example-config.py:20)
REQUEST_DELAY == 5
\* base.py:205  TIMEOUT (default 30.0, example-config.py:17)
TIMEOUT == 30
\* base.py:35  default of the scrape_interval parameter of __init__
REQUESTED_INTERVAL == 1800
\* base.py:83  config.SETTINGS.get("SCRAPE_INTERVAL", 1800)
CONFIG_INTERVAL == 1800
\* ptn.py:168  minimum_interval = 900.0
MINIMUM_INTERVAL == 900
\* ptn.py:52  config.SETTINGS.get("CHECK_INTERVAL", 900.0)
CHECK_INTERVAL == 900
\* ptn.py:180  asyncio.sleep(60), the fallback sleep of main()
FALLBACK_SLEEP == 60
\* the wall clock when the process starts (time.time() is far above any interval)
EPOCH == 10000

(***************************************************************************)
(* Bounds of the model.                                                    *)
(***************************************************************************)
\* orchestrator iterations explored
MaxIter == 2
\* Items one adapter call returns at most
MaxItems == 2
\* seconds of network latency explored per iteration, on top of the sleeps
MaxLatency == 1
\* intervals explored for get_scrape_interval: multiples of 450 s
MaxIntervalSteps == 8

\* cookie files found by the orchestrator: one session each (ptn.py:139-146)
Sessions == {"c1", "c2"}
\* the order in which main() constructs them
SessionOrder == <<"c1", "c2">>
\* tracker names (base.py:39): TorrentDay.py:20, AmigosShareClub.py:23
Trackers == {"TorrentDay", "AmigosShareClub"}
\* Item ids a site can list
Ids == {42, 43}
\* the ids a long-running tracker has acknowledged: 1001, 1002, ...
OldIds(n) == [k \in 1..n |-> 1000 + k]
\* notifier sinks in configuration order (base.py:138-141)
Sinks == <<"telegram", "discord">>

None == "none"

VARIABLES
    now,                \* time.time() / time.monotonic()
    orchPc,             \* main(): "build" | "gather" | "sleep" | "crashed"
    iter,               \* iterations of main()'s while True started so far
    iterStart,          \* wall clock when the current iteration started
    sleep_time,         \* main(): the argument of its asyncio.sleep
    cookies,            \* the cookie files in ./cookies: one session each
    tracker,            \* cookie file -> tracker name (the adapter class)
    requested,          \* the scrape_interval argument of BaseTracker.__init__
    configured,         \* config.SETTINGS["SCRAPE_INTERVAL"] as a number
    effective,          \* self.scrape_interval (0: not constructed yet)
    settings,           \* config.SETTINGS
    cookie_ok,          \* cookie file -> MozillaCookieJar.load can read it
    startup,            \* ptn.py module level: "none" | "exit" | "running"
    site,               \* cookie file -> ids its account's inbox lists unread
    disk,               \* tracker name -> state/<tracker>.json
    pc,                 \* session -> position of its fetch_notifications task
    state,              \* session -> self.state (processed_ids, last_run)
    first_run,          \* session -> self.first_run
    client,             \* session -> "none" | "open" | "closed" (self.client)
    all_items,          \* session -> ids of all_items in process()
    idx,                \* session -> index of the Item being dispatched
    nidx,               \* session -> index of the notifier being called
    pending,            \* session -> page fetches the adapter still has to make
    wake,               \* session -> time its asyncio.sleep ends
    ret,                \* session -> value returned by fetch_notifications
    request_lock,       \* BaseTracker._request_lock: holder or None
    last_request_time,  \* BaseTracker._last_request_time
    limits,             \* session -> delay and timeout of its _fetch_page call
    \* history variables (observations, never read by the program)
    backlog,            \* cookie file -> ids its inbox listed at a setup without state file
    preState,           \* session -> self.state when its cycle started
    calls,              \* session -> notifier invocations of its cycle
    noFile,             \* session -> no state file existed at construction
    badFile,            \* session -> the state file at construction was unreadable
    outcome,            \* session -> "none" | "skipped" | "ok" | "failed"
    endTime,            \* session -> wall clock when process() returned
    startTime,          \* session -> wall clock when fetch_notifications ran
    cycles,             \* session -> calls of process() it has made
    fetchFailed,        \* session -> a page fetch of its cycle failed
    paces,              \* session -> pacing sleeps its cycle has started
    lastOk,             \* cookie file -> when its last completed cycle before this iteration ended
    sendTimes,          \* times of the last two gated requests sent
    inflight            \* sessions whose gated request is in flight

vars == <<now, orchPc, iter, iterStart, sleep_time, cookies, tracker,
          requested, configured, effective, settings, cookie_ok, startup,
          limits, backlog, site, disk, pc, state, first_run,
          client, all_items, idx, nidx, pending, wake, ret, request_lock,
          last_request_time, preState, calls, noFile, badFile, outcome, endTime,
          startTime, cycles, fetchFailed, paces, lastOk, sendTimes, inflight>>

sessVars == <<pc, state, first_run, client, all_items, idx, nidx, pending,
              wake, ret, preState, calls, noFile, badFile, outcome, endTime,
              startTime, cycles, fetchFailed, paces, lastOk>>

(***************************************************************************)
(* Helpers.                                                                *)
(***************************************************************************)
Range(q) == {q[k] : k \in DOMAIN q}

Min(S) == CHOOSE x \in S : \A y \in S : x <= y

\* sequences over S without repetition, of length at most n
RECURSIVE DistinctSeqs(_, _)
DistinctSeqs(S, n) ==
    IF n = 0 \/ S = {} THEN {<<>>}
    ELSE {<<>>} \cup
         UNION {{<<x>> \o q : q \in DistinctSeqs(S \ {x}, n - 1)} : x \in S}

\* q[-n:] of Python
Tail_n(q, n) ==
    IF Len(q) <= n THEN q ELSE SubSeq(q, Len(q) - n + 1, Len(q))

EmptyState == [processed_ids |-> <<>>, last_run |-> 0]
\* a state file: valid is FALSE when json.loads fails on its text or one of
\* the keys processed_ids, last_run is missing (base.py:92-94)
NoFile == [exists |-> FALSE, valid |-> FALSE, processed_ids |-> <<>>,
           last_run |-> 0]
BadFile == [exists |-> TRUE, valid |-> FALSE, processed_ids |-> <<>>,
            last_run |-> 0]
FileOf(st) == [exists |-> TRUE, valid |-> TRUE,
               processed_ids |-> st.processed_ids, last_run |-> st.last_run]
Unreadable(file) == file.exists /\ ~file.valid

(***************************************************************************)
(* config.SETTINGS.  A channel setting is a string, "" when it is not      *)
(* set; REQUEST_DELAY and TIMEOUT are whatever the user wrote in           *)
(* config.py: a number, a text that is no number, or nothing at all.       *)
(***************************************************************************)
Missing == [kind |-> "missing", num |-> 0]
Text == [kind |-> "text", num |-> 0]
Num(n) == [kind |-> "number", num |-> n]

\* example-config.py:3-21 with both channels filled in
ExampleSettings ==
    [TELEGRAM_BOT_TOKEN |-> "set", TELEGRAM_CHAT_ID |-> "set",
     DISCORD_WEBHOOK_URL |-> "set",
     REQUEST_DELAY |-> Num(REQUEST_DELAY), TIMEOUT |-> Num(TIMEOUT)]

\* limits of a session that has not called _fetch_page
NoLimits == [delay |-> 0, timeout |-> 0]

\* Python's truth value of a setting: None and "" are false
Truthy(v) == v # ""

\* dict.get(key, default)
get(v, default) == IF v.kind = "missing" THEN Num(default) ELSE v

\* float(v) raises ValueError for a text that is no number
float_raises(v) == v.kind = "text"

\* base.py:203-212: both values are converted inside one try; a
\* conversion that raises or a negative value sends both to the defaults
fetch_limits(cfg) ==
    LET d == get(cfg.REQUEST_DELAY, REQUEST_DELAY)
        t == get(cfg.TIMEOUT, TIMEOUT)
    IN  IF float_raises(d) \/ float_raises(t) \/ d.num < 0 \/ t.num < 0
        THEN [delay |-> REQUEST_DELAY, timeout |-> TIMEOUT]
        ELSE [delay |-> d.num, timeout |-> t.num]

\* ptn.py:56-58: the module exits unless both Telegram settings are set
startup_accepts(cfg) ==
    ~(~Truthy(cfg.TELEGRAM_BOT_TOKEN) \/ ~Truthy(cfg.TELEGRAM_CHAT_ID))

\* utils/config_validator.py:29-31: load_config exits when neither the
\* Telegram pair nor the Discord webhook is set
load_config_accepts(cfg) ==
    ~((~Truthy(cfg.TELEGRAM_BOT_TOKEN) \/ ~Truthy(cfg.TELEGRAM_CHAT_ID))
        /\ ~Truthy(cfg.DISCORD_WEBHOOK_URL))

(***************************************************************************)
(* Pure functions of the program.                                          *)
(***************************************************************************)
\* get_scrape_interval that always returns the global setting
get_scrape_interval_global(scrape_interval, config_interval) ==
    config_interval

\* BaseTracker.get_scrape_interval: never below the configured interval
get_scrape_interval(scrape_interval, config_interval) ==
    IF scrape_interval >= config_interval THEN scrape_interval
    ELSE config_interval

\* self.scrape_interval of every session (all adapters use the default)
scrape_interval == get_scrape_interval(REQUESTED_INTERVAL, CONFIG_INTERVAL)

\* _ack_item without the truncation of base.py:118-119
ack_item_unbounded(processed_ids, item_id) ==
    IF item_id \in Range(processed_ids) THEN processed_ids
    ELSE Append(processed_ids, item_id)

\* _ack_item with the slice of base.py:119 written [:300] for [-300:]
ack_item_drop_newest(processed_ids, item_id) ==
    IF item_id \in Range(processed_ids) THEN processed_ids
    ELSE LET appended == Append(processed_ids, item_id)
         IN  IF Len(appended) > MAX_PROCESSED
             THEN SubSeq(appended, 1, MAX_PROCESSED)
             ELSE appended

\* _ack_item without the membership test of base.py:116
ack_item_always_appends(processed_ids, item_id) ==
    LET appended == Append(processed_ids, item_id)
    IN  IF Len(appended) > MAX_PROCESSED
        THEN Tail_n(appended, MAX_PROCESSED)
        ELSE appended

\* BaseTracker._ack_item on the list processed_ids
ack_item(processed_ids, item_id) ==
    IF item_id \in Range(processed_ids) THEN processed_ids
    ELSE LET appended == Append(processed_ids, item_id)
         IN  IF Len(appended) > MAX_PROCESSED
             THEN Tail_n(appended, MAX_PROCESSED)
             ELSE appended

\* the condition of base.py:122 written with > for >=
IsDue_strict(t, last_run, interval) == t - last_run > interval

\* a fetch_notifications that calls process() whatever last_run says
IsDue_always(t, last_run, interval) == TRUE

\* the condition of fetch_notifications (base.py:122):
\* time.time() - last_run >= self.scrape_interval
IsDue(t, last_run, interval) == t - last_run >= interval

\* remaining_time of base.py:126 with the operands of the subtraction swapped
RemainingTime_swapped(t, last_run, interval) == t - (last_run + interval)

\* remaining_time of fetch_notifications (base.py:126)
RemainingTime(t, last_run, interval) == last_run + interval - t

\* base.py:45  Path("./state") / f"{self.tracker}.json": the path is made
\* of the tracker name alone, the cookie file has no part in it
state_path(trk) == <<".", "state", trk, "json">>

\* BaseTracker._load_state: the state and the first_run flag it leaves
\* (the except clause of base.py:96-97 returns the empty state and does not
\* touch first_run)
load_state(file) ==
    IF ~file.exists THEN [state |-> EmptyState, first_run |-> TRUE]
    ELSE IF file.valid
    THEN [state |-> [processed_ids |-> file.processed_ids,
                     last_run |-> file.last_run],
          first_run |-> FALSE]
    ELSE [state |-> EmptyState, first_run |-> FALSE]

\* _load_state creating the missing file with the construction time as
\* last_run
file_after_load_stamped(file) ==
    IF file.exists THEN file
    ELSE FileOf([processed_ids |-> <<>>, last_run |-> EPOCH])

\* the file after _load_state: a missing file is created by _save_state
file_after_load(file) ==
    IF file.exists THEN file ELSE FileOf(EmptyState)

\* a constructor without the try around cookie_jar.load
cookie_jar_load_raises(readable) == IF readable THEN "loaded" ELSE "raised"

\* base.py:43, 48-52: MozillaCookieJar.load inside try/except Exception;
\* the error of an unreadable or unparsable file is logged and the jar
\* stays as MozillaCookieJar(path) made it: empty
cookie_jar_load(readable) == IF readable THEN "loaded" ELSE "empty"

\* BaseTracker.__init__ lines 46-47: self.state = self._load_state() and
\* then self.first_run = False, which overwrites what _load_state set
first_run_after_init(loaded_first_run) == FALSE

\* process() with the two branches of base.py:138-141 in the other order
notifiers_discord_first == <<"discord", "telegram">>

\* process() without the Discord branch of base.py:140-141
notifiers_telegram_only == <<"telegram">>

\* process() without the Discord branch of base.py:140-141, the Telegram
\* branch as it is
notifiers_without_discord ==
    IF Truthy(settings.TELEGRAM_BOT_TOKEN) /\ Truthy(settings.TELEGRAM_CHAT_ID)
    THEN <<"telegram">> ELSE <<>>

\* the notifiers list process() builds (base.py:133-141)
notifiers ==
    (IF Truthy(settings.TELEGRAM_BOT_TOKEN) /\ Truthy(settings.TELEGRAM_CHAT_ID)
     THEN <<"telegram">> ELSE <<>>)
    \o (IF Truthy(settings.DISCORD_WEBHOOK_URL) THEN <<"discord">> ELSE <<>>)

\* what _fetch_items returns for the rows the site lists:
\* TorrentDay._parse_messages keeps every unread row,
\* AmigosShareClub._parse_messages skips ids in processed_ids
adapter_items(trk, listing, processed_ids) ==
    IF trk = "TorrentDay" THEN listing
    ELSE SelectSeq(listing, LAMBDA i : i \notin Range(processed_ids))

\* requests _fetch_items makes after the listing page: one message body
\* per Item (TorrentDay.py:61-63, AmigosShareClub.py:31-33)
body_fetches(trk, items) == Len(items)

\* how _fetch_body sends its request: TorrentDay through _fetch_page
\* (TorrentDay.py:91), AmigosShareClub with self.client.post
\* (AmigosShareClub.py:50)
body_is_gated(trk) == trk = "TorrentDay"

\* main(): the sleep between two iterations (ptn.py:168-173)
current_interval ==
    IF CHECK_INTERVAL > MINIMUM_INTERVAL THEN CHECK_INTERVAL
    ELSE MINIMUM_INTERVAL

\* process() without its except clause: the exception leaves the task
cycle_error_escapes == "raised"

\* process() with _ack_item called ahead of the notifier loop
ack_is_next_early(first, n) == first \/ n >= 1

\* base.py:147-156: _ack_item is the next statement when first_run skipped
\* the notifier loop or the loop has gone through every notifier
ack_is_next(first, n) == first \/ n > Len(notifiers)

\* where an exception raised inside the try of process() ends: the
\* except Exception clause logs it and the task goes on to the finally
cycle_error_outcome == "failed"

(***************************************************************************)
(* Frames.                                                                 *)
(***************************************************************************)
\* what the program never changes after start: the cookie directory
envVars == <<cookies, tracker, requested, configured, effective, backlog,
             settings, cookie_ok, startup>>
orchVars == <<orchPc, iter, iterStart, sleep_time>>
gateVars == <<request_lock, last_request_time>>
gateHist == <<sendTimes, inflight>>
\* the cycle of a session, as process() sees it
cycleVars == <<state, first_run, all_items, idx, nidx, pending>>
cycleHist == <<preState, calls, noFile, badFile, startTime, cycles, fetchFailed,
               paces>>
endVars == <<client, ret, outcome, endTime, lastOk>>

(***************************************************************************)
(* Initial states: the process starts; ./state holds what earlier runs of  *)
(* the program left there, ./cookies the cookie files of the user.         *)
(***************************************************************************)
\* state files an earlier run can have left: none; the file of a cycle
\* completed exactly one interval ago, or half an interval ago; the file
\* of a tracker that has acknowledged 299 Items so far; a file that is not
\* a SessionState (truncated by a crash, edited by hand)
InitFiles ==
    {NoFile,
     FileOf([processed_ids |-> <<42>>, last_run |-> EPOCH - CONFIG_INTERVAL]),
     FileOf([processed_ids |-> <<42>>, last_run |-> EPOCH - MINIMUM_INTERVAL]),
     FileOf([processed_ids |-> OldIds(MAX_PROCESSED - 1),
             last_run |-> EPOCH - CONFIG_INTERVAL]),
     BadFile}

\* every adapter leaves scrape_interval at its default (base.py:35) and
\* config.py sets no SCRAPE_INTERVAL (base.py:83)
\* config.py as the example with both channels filled in, readable cookie
\* files; the module-level check of ptn.py has passed
InitConfigured ==
    /\ settings = ExampleSettings
    /\ cookie_ok = [s \in Sessions |-> TRUE]
    /\ startup = "running"

InitIntervals ==
    /\ requested = REQUESTED_INTERVAL
    /\ configured = CONFIG_INTERVAL
    /\ effective = scrape_interval

InitRest ==
    /\ now = EPOCH
    /\ backlog = [s \in Sessions |->
                     IF s \in cookies /\ ~disk[tracker[s]].exists
                     THEN Range(site[s]) ELSE {}]
    /\ orchPc = "build"
    /\ iter = 0
    /\ iterStart = EPOCH
    /\ sleep_time = 0
    /\ pc = [s \in Sessions |-> "none"]
    /\ state = [s \in Sessions |-> EmptyState]
    /\ first_run = [s \in Sessions |-> FALSE]
    /\ client = [s \in Sessions |-> "none"]
    /\ all_items = [s \in Sessions |-> <<>>]
    /\ idx = [s \in Sessions |-> 1]
    /\ nidx = [s \in Sessions |-> 1]
    /\ pending = [s \in Sessions |-> -1]
    /\ wake = [s \in Sessions |-> 0]
    /\ ret = [s \in Sessions |-> 0]
    /\ request_lock = None
    /\ last_request_time = 0
    /\ limits = [s \in Sessions |-> NoLimits]
    /\ preState = [s \in Sessions |-> EmptyState]
    /\ calls = [s \in Sessions |-> <<>>]
    /\ noFile = [s \in Sessions |-> FALSE]
    /\ badFile = [s \in Sessions |-> FALSE]
    /\ outcome = [s \in Sessions |-> "none"]
    /\ endTime = [s \in Sessions |-> 0]
    /\ startTime = [s \in Sessions |-> 0]
    /\ cycles = [s \in Sessions |-> 0]
    /\ fetchFailed = [s \in Sessions |-> FALSE]
    /\ paces = [s \in Sessions |-> 0]
    /\ lastOk = [s \in Sessions |-> 0]
    /\ sendTimes = <<>>
    /\ inflight = {}

\* one cookie file: one session per iteration, any tracker, any inbox
Init ==
    /\ cookies = {"c1"}
    /\ \E t \in Trackers : tracker = [s \in Sessions |-> t]
    /\ \E l \in DistinctSeqs(Ids, MaxItems) :
          site = [s \in Sessions |-> IF s \in cookies THEN l ELSE <<>>]
    /\ \E f \in InitFiles :
          disk = [t \in Trackers |-> IF t = tracker["c1"] THEN f ELSE NoFile]
    /\ InitIntervals
    /\ InitConfigured
    /\ InitRest

(***************************************************************************)
(* The orchestrator, main() of ptn.py.                                     *)
(***************************************************************************)
\* the state directory after main() constructed the first k sessions
RECURSIVE DiskAfter(_)
DiskAfter(k) ==
    IF k = 0 THEN disk
    ELSE LET d == DiskAfter(k - 1)
             s == SessionOrder[k]
             t == tracker[s]
         IN  IF s \in cookies THEN [d EXCEPT ![t] = file_after_load(d[t])]
             ELSE d

Position(s) == CHOOSE k \in DOMAIN SessionOrder : SessionOrder[k] = s

\* the file a session's constructor finds
FileSeenBy(s) == DiskAfter(Position(s) - 1)[tracker[s]]

\* a main() that keeps its tracker instances over the iterations: the
\* client of an instance that ran a cycle stays closed
client_at_build_reused(previous) ==
    IF previous = "closed" THEN "closed" ELSE "open"

\* ptn.py:144-148, base.py:60-66: every iteration calls
\* tracker_class(Path(f)) anew and the constructor opens a new
\* httpx.AsyncClient, whatever became of the previous instance's client
client_at_build(previous) == "open"

\* self.cookie_jar as the constructor leaves it (base.py:43-52)
cookie_jar(s) == cookie_jar_load(cookie_ok[s])

\* ptn.py:144-148: every constructor call of the iteration returned
Constructed == \A s \in cookies : cookie_jar(s) # "raised"

\* ptn.py:137-156: one tracker instance per cookie file, one task each
OrchBuild ==
    /\ orchPc = "build"
    /\ startup = "running"
    /\ iter < MaxIter
    /\ iter' = iter + 1
    /\ iterStart' = now
    /\ orchPc' = IF Constructed THEN "gather" ELSE "crashed"
    /\ disk' = DiskAfter(Len(SessionOrder))
    /\ state' = [s \in Sessions |->
                    IF s \in cookies THEN load_state(FileSeenBy(s)).state
                    ELSE EmptyState]
    /\ first_run' = [s \in Sessions |->
                        IF s \in cookies
                        THEN first_run_after_init(load_state(FileSeenBy(s)).first_run)
                        ELSE FALSE]
    /\ noFile' = [s \in Sessions |-> s \in cookies /\ ~FileSeenBy(s).exists]
    /\ badFile' = [s \in Sessions |-> s \in cookies /\ Unreadable(FileSeenBy(s))]
    /\ client' = [s \in Sessions |->
                     IF s \in cookies /\ Constructed
                     THEN client_at_build(client[s]) ELSE "none"]
    /\ pc' = [s \in Sessions |->
                 IF s \in cookies /\ Constructed THEN "start" ELSE "none"]
    /\ all_items' = [s \in Sessions |-> <<>>]
    /\ idx' = [s \in Sessions |-> 1]
    /\ nidx' = [s \in Sessions |-> 1]
    /\ pending' = [s \in Sessions |-> -1]
    /\ wake' = [s \in Sessions |-> 0]
    /\ ret' = [s \in Sessions |-> 0]
    /\ preState' = [s \in Sessions |-> EmptyState]
    /\ calls' = [s \in Sessions |-> <<>>]
    /\ outcome' = [s \in Sessions |-> "none"]
    /\ endTime' = [s \in Sessions |-> 0]
    /\ startTime' = [s \in Sessions |-> 0]
    /\ cycles' = [s \in Sessions |-> 0]
    /\ fetchFailed' = [s \in Sessions |-> FALSE]
    /\ paces' = [s \in Sessions |-> 0]
    /\ lastOk' = [s \in Sessions |->
                     IF outcome[s] = "ok" THEN endTime[s] ELSE lastOk[s]]
    /\ limits' = [s \in Sessions |-> NoLimits]
    /\ UNCHANGED <<now, sleep_time, envVars, site, gateVars, gateHist>>

\* ptn.py:144-158: the constructor call tracker_class(Path(f)) and the call
\* tracker_instance.fetch_notifications(send_telegram) stand outside every
\* try of main().  The call passes an argument that
\* BaseTracker.fetch_notifications(self) does not take (base.py:121) and
\* the constructor opens httpx.AsyncClient(http2=True) unguarded
\* (base.py:60-65): an exception raised here leaves main() and
\* asyncio.run, and __main__ catches KeyboardInterrupt only (ptn.py:183-187)
BuildRaises ==
    /\ orchPc = "build"
    /\ iter < MaxIter
    /\ cookies # {}
    /\ orchPc' = "crashed"
    /\ UNCHANGED <<now, iter, iterStart, sleep_time, envVars, site, disk, pc,
                   wake, cycleVars, cycleHist, endVars, gateVars, gateHist, limits>>

\* asyncio.gather returns when every task has returned, or at once when
\* a task raises (ptn.py:160-164)
GatherReturns ==
    \/ \A s \in cookies : pc[s] = "done"
    \/ \E s \in cookies : pc[s] = "raised"

\* ptn.py:160-177: gather returned (an exception out of it is printed);
\* main() starts asyncio.sleep(current_interval)
GatherDone ==
    /\ orchPc = "gather"
    /\ GatherReturns
    /\ orchPc' = "sleep"
    /\ sleep_time' = current_interval
    /\ UNCHANGED <<now, iter, iterStart, envVars, site, disk, pc, wake,
                   cycleVars, cycleHist, endVars, gateVars, gateHist, limits>>

\* ptn.py:177, 137: the sleep is over, the next iteration starts.
\* Meanwhile the inboxes changed: messages arrived, the user read others.
OrchWake ==
    /\ orchPc = "sleep"
    /\ iter < MaxIter
    /\ orchPc' = "build"
    /\ now' = now + sleep_time
    /\ \E l \in [cookies -> DistinctSeqs(Ids, MaxItems)] :
          site' = [s \in Sessions |-> IF s \in cookies THEN l[s] ELSE <<>>]
    /\ UNCHANGED <<iter, iterStart, sleep_time, envVars, disk, pc, wake,
                   cycleVars, cycleHist, endVars, gateVars, gateHist, limits>>

(***************************************************************************)
(* The rate limiter, BaseTracker._fetch_page.                              *)
(***************************************************************************)
\* the request leaves: self.client.get(url) right after the gate (base.py:225)
SendRequest(s) ==
    /\ sendTimes' = Tail_n(Append(sendTimes, now), 2)
    /\ inflight' = inflight \cup {s}

\* base.py:218  if elapsed < delay
MustWait(elapsed, delay) == elapsed < delay

\* base.py:203-221: delay and timeout are read from config.SETTINGS, then
\* async with _request_lock; a caller that finds the lock free and
\* elapsed >= delay leaves the block at once and sends
GateAcquire(s) ==
    /\ pc[s] = "rl_lock"
    /\ request_lock = None
    /\ limits' = [limits EXCEPT ![s] = fetch_limits(settings)]
    /\ LET elapsed == now - last_request_time
           delay == fetch_limits(settings).delay
       IN  IF MustWait(elapsed, delay)
           THEN /\ request_lock' = s
                /\ wake' = [wake EXCEPT ![s] = now + (delay - elapsed)]
                /\ pc' = [pc EXCEPT ![s] = "rl_sleep"]
                /\ UNCHANGED gateHist
           ELSE /\ pc' = [pc EXCEPT ![s] = "request"]
                /\ SendRequest(s)
                /\ UNCHANGED <<request_lock, wake>>
    /\ UNCHANGED <<now, orchVars, envVars, site, disk, cycleVars, cycleHist,
                   endVars, last_request_time>>

\* an async with block that keeps the lock when it is left
release_lock_skipped(holder) == holder

\* base.py:214  the end of the block `async with BaseTracker._request_lock`
\* releases the lock
release_lock(holder) == None

\* base.py:221-225: the pacing sleep ends, the lock is released, the
\* request is sent
GateWake(s) ==
    /\ pc[s] = "rl_sleep"
    /\ now >= wake[s]
    /\ request_lock' = release_lock(s)
    /\ pc' = [pc EXCEPT ![s] = "request"]
    /\ SendRequest(s)
    /\ UNCHANGED <<now, orchVars, envVars, site, disk, cycleVars, cycleHist,
                   endVars, wake, last_request_time, limits>>

\* the success_text argument of the _fetch_page call a session is in:
\* AmigosShareClub passes one for its inbox page (AmigosShareClub.py:87),
\* TorrentDay passes none (TorrentDay.py:33, 91)
success_text(trk, pend) ==
    IF trk = "AmigosShareClub" /\ pend = -1 THEN "Reputacao" ELSE ""

\* utils/cookies.py:6-24: False when a keyword is given and the response
\* does not contain it
valid_response(has_keyword, keyword) ==
    IF keyword # "" /\ ~has_keyword THEN FALSE ELSE TRUE

\* the position of a session to which _fetch_page returned a response
\* text: "page_invalid" when the text lacks the keyword asked for
page_returned(has_keyword, keyword) ==
    IF valid_response(has_keyword, keyword) THEN "page_ok" ELSE "page_invalid"

\* base.py:225-235: the response arrived and raise_for_status passed; the
\* result of valid_response is not looked at (base.py:228-229);
\* _last_request_time is written under the lock, then the text returned
ResponseOk(s) ==
    /\ pc[s] = "request"
    /\ inflight' = inflight \ {s}
    /\ \E has_keyword \in BOOLEAN :
          LET keyword == success_text(tracker[s], pending[s])
              page == page_returned(has_keyword, keyword)
          IN  /\ keyword = "" => has_keyword
              /\ keyword # "" /\ cookie_jar(s) = "empty" => ~has_keyword
              /\ IF request_lock = None
                 THEN /\ last_request_time' = now
                      /\ pc' = [pc EXCEPT ![s] = page]
                 ELSE /\ pc' = [pc EXCEPT ![s] =
                                   IF page = "page_ok" THEN "rl_record"
                                   ELSE "rl_record_invalid"]
                      /\ UNCHANGED last_request_time
    /\ UNCHANGED <<now, orchVars, envVars, site, disk, cycleVars, cycleHist,
                   endVars, wake, request_lock, sendTimes, limits>>

\* base.py:231-232: the lock was held when the response arrived
GateRecord(s) ==
    /\ pc[s] \in {"rl_record", "rl_record_invalid"}
    /\ request_lock = None
    /\ last_request_time' = now
    /\ pc' = [pc EXCEPT ![s] =
                 IF pc[s] = "rl_record" THEN "page_ok" ELSE "page_invalid"]
    /\ UNCHANGED <<now, orchVars, envVars, site, disk, cycleVars, cycleHist,
                   endVars, wake, request_lock, gateHist, limits>>

\* base.py:237-254: timeout, network error or HTTP error status: logged,
\* _fetch_page returns ""
ResponseError(s) ==
    /\ pc[s] = "request"
    /\ inflight' = inflight \ {s}
    /\ pc' = [pc EXCEPT ![s] = "page_empty"]
    /\ fetchFailed' = [fetchFailed EXCEPT ![s] = TRUE]
    /\ UNCHANGED <<now, orchVars, envVars, site, disk, cycleVars, preState,
                   calls, noFile, badFile, startTime, cycles, paces, endVars, wake,
                   gateVars, sendTimes, limits>>

(***************************************************************************)
(* The session: fetch_notifications and process.                           *)
(***************************************************************************)
\* base.py:121-129
FetchNotifications(s) ==
    /\ pc[s] = "start"
    /\ startTime' = [startTime EXCEPT ![s] = now]
    /\ IF IsDue(now, state[s].last_run, scrape_interval)
       THEN /\ pc' = [pc EXCEPT ![s] = "rl_lock"]
            /\ preState' = [preState EXCEPT ![s] = state[s]]
            /\ cycles' = [cycles EXCEPT ![s] = @ + 1]
            /\ UNCHANGED <<ret, outcome>>
       ELSE /\ pc' = [pc EXCEPT ![s] = "done"]
            /\ ret' = [ret EXCEPT ![s] =
                          RemainingTime(now, state[s].last_run, scrape_interval)]
            /\ outcome' = [outcome EXCEPT ![s] = "skipped"]
            /\ UNCHANGED <<preState, cycles>>
    /\ UNCHANGED <<now, orchVars, envVars, site, disk, cycleVars, calls,
                   noFile, badFile, fetchFailed, paces, client, endTime, lastOk,
                   wake,
                   gateVars, gateHist, limits>>

\* base.py:159-163: an exception inside the try of process(): logged by
\* the except clause, the client closed by the finally, process returns
CycleError(s) ==
    /\ pc' = [pc EXCEPT ![s] =
                 IF cycle_error_outcome = "failed" THEN "done" ELSE "raised"]
    /\ outcome' = [outcome EXCEPT ![s] = cycle_error_outcome]
    /\ client' = [client EXCEPT ![s] = "closed"]
    /\ ret' = [ret EXCEPT ![s] = scrape_interval]
    /\ endTime' = [endTime EXCEPT ![s] = now]
    /\ UNCHANGED lastOk

\* the adapter parsed the listing page (TorrentDay.py:30-59,
\* AmigosShareClub.py:84-142): the unread rows become Items; after an
\* error _fetch_page returned "" and the parser finds no row, nor does it
\* in a page without the keyword or in the page a request without cookies
\* gets (the login page).  The first message body
\* is requested: through the rate limiter, or at once
AdapterListing(s) ==
    /\ pc[s] \in {"page_ok", "page_empty", "page_invalid"}
    /\ pending[s] = -1
    /\ LET listing == IF pc[s] = "page_ok" /\ cookie_jar(s) = "loaded"
                      THEN site[s] ELSE <<>>
           items == adapter_items(tracker[s], listing, state[s].processed_ids)
           n == body_fetches(tracker[s], items)
       IN  /\ all_items' = [all_items EXCEPT ![s] = items]
           /\ pending' = [pending EXCEPT ![s] = n]
           /\ pc' = [pc EXCEPT ![s] = IF n = 0 THEN "dispatch"
                                      ELSE IF body_is_gated(tracker[s])
                                      THEN "rl_lock" ELSE "direct"]
    /\ UNCHANGED <<now, orchVars, envVars, site, disk, state, first_run, idx,
                   nidx, cycleHist, endVars, wake, gateVars, gateHist, limits>>

\* AmigosShareClub._fetch_body (AmigosShareClub.py:37-82): the POST to
\* search.php was answered or failed (the except clauses turn a failure
\* into the body text); the next Item's body is requested the same way
DirectResponse(s) ==
    /\ pc[s] = "direct"
    /\ pending[s] > 0
    /\ pending' = [pending EXCEPT ![s] = pending[s] - 1]
    /\ pc' = [pc EXCEPT ![s] = IF pending[s] > 1 THEN "direct" ELSE "dispatch"]
    /\ UNCHANGED <<now, orchVars, envVars, site, disk, state, first_run,
                   all_items, idx, nidx, cycleHist, endVars, wake, gateVars,
                   gateHist, limits>>

\* TorrentDay._fetch_body (TorrentDay.py:89-103): the body page came back
\* (or "" after an error); the next row's body is fetched
AdapterBody(s) ==
    /\ pc[s] \in {"page_ok", "page_empty"}
    /\ pending[s] > 0
    /\ pending' = [pending EXCEPT ![s] = pending[s] - 1]
    /\ pc' = [pc EXCEPT ![s] = IF pending[s] > 1 THEN "rl_lock" ELSE "dispatch"]
    /\ UNCHANGED <<now, orchVars, envVars, site, disk, state, first_run,
                   all_items, idx, nidx, cycleHist, endVars, wake, gateVars,
                   gateHist, limits>>

\* base.py:144: await self._fetch_items() raises (the parser met markup it
\* does not handle)
AdapterRaises(s) ==
    /\ pc[s] \in {"page_ok", "page_empty", "page_invalid"}
    /\ pending[s] = -1
    /\ CycleError(s)
    /\ UNCHANGED <<now, orchVars, envVars, site, disk, cycleVars, cycleHist,
                   wake, gateVars, gateHist, limits>>

\* base.py:146-155: the next notifier is called for the current Item and,
\* when it returned, asyncio.sleep(3) is started inside the notifier loop.
\* "returned": the sink returned, having delivered the Item or having caught
\* and logged the failure of its own POST (telegram.py:65-74,
\* discord.py:110-122); "raise": the sink raised outside its own try
\* (discord.py:69-70 get_local_favicon's mkdir, telegram.py:26 item["type"])
NotifierCall(s) ==
    /\ pc[s] = "dispatch"
    /\ idx[s] <= Len(all_items[s])
    /\ ~first_run[s]
    /\ nidx[s] <= Len(notifiers)
    /\ \E result \in {"returned", "raise"} :
          /\ calls' = [calls EXCEPT ![s] =
                          Append(@, [id |-> all_items[s][idx[s]],
                                     sink |-> notifiers[nidx[s]],
                                     result |-> result])]
          /\ IF result = "raise"
             THEN /\ CycleError(s)
                  /\ UNCHANGED <<wake, paces>>
             ELSE /\ pc' = [pc EXCEPT ![s] = "pace"]
                  /\ wake' = [wake EXCEPT ![s] = now + DISPATCH_SLEEP]
                  /\ paces' = [paces EXCEPT ![s] = @ + 1]
                  /\ UNCHANGED endVars
    /\ UNCHANGED <<now, orchVars, envVars, site, disk, cycleVars, preState,
                   noFile, badFile, startTime, cycles, fetchFailed, gateVars,
                   gateHist, limits>>

\* base.py:155: asyncio.sleep(3) after the notifier call is over
PaceWake(s) ==
    /\ pc[s] = "pace"
    /\ now >= wake[s]
    /\ pc' = [pc EXCEPT ![s] = "dispatch"]
    /\ nidx' = [nidx EXCEPT ![s] = nidx[s] + 1]
    /\ UNCHANGED <<now, orchVars, envVars, site, disk, state, first_run,
                   all_items, idx, pending, cycleHist, endVars, wake, gateVars,
                   gateHist, limits>>

\* base.py:156: await self._ack_item(item), then the next Item
AckItem(s) ==
    /\ pc[s] = "dispatch"
    /\ idx[s] <= Len(all_items[s])
    /\ ack_is_next(first_run[s], nidx[s])
    /\ state' = [state EXCEPT ![s].processed_ids =
                    ack_item(@, all_items[s][idx[s]])]
    /\ idx' = [idx EXCEPT ![s] = idx[s] + 1]
    /\ nidx' = [nidx EXCEPT ![s] = 1]
    /\ UNCHANGED <<now, orchVars, envVars, site, disk, pc, first_run,
                   all_items, pending, cycleHist, endVars, wake, gateVars,
                   gateHist, limits>>

\* process() without the assignment of base.py:157
completed_state_stale(st, t) == st

\* base.py:157  self.state["last_run"] = time.time()
completed_state(st, t) == [st EXCEPT !.last_run = t]

\* base.py:157-163: all Items done: last_run, _save_state, client closed
FinishCycle(s) ==
    /\ pc[s] = "dispatch"
    /\ idx[s] > Len(all_items[s])
    /\ state' = [state EXCEPT ![s] = completed_state(@, now)]
    /\ disk' = [disk EXCEPT ![tracker[s]] = FileOf(completed_state(state[s], now))]
    /\ client' = [client EXCEPT ![s] = "closed"]
    /\ pc' = [pc EXCEPT ![s] = "done"]
    /\ outcome' = [outcome EXCEPT ![s] = "ok"]
    /\ ret' = [ret EXCEPT ![s] = scrape_interval]
    /\ endTime' = [endTime EXCEPT ![s] = now]
    /\ UNCHANGED lastOk
    /\ UNCHANGED <<now, orchVars, envVars, site, first_run, all_items, idx,
                   nidx, pending, cycleHist, wake, gateVars, gateHist, limits>>

(***************************************************************************)
(* Time.                                                                   *)
(***************************************************************************)
Sleepers == {s \in Sessions : pc[s] \in {"rl_sleep", "pace"}}

\* a second passes while a request is in flight
Tick ==
    /\ inflight # {} \/ \E s \in cookies : pc[s] = "direct"
    /\ now - iterStart < MaxLatency
    /\ now' = now + 1
    /\ UNCHANGED <<orchVars, envVars, site, disk, pc, wake, cycleVars,
                   cycleHist, endVars, gateVars, gateHist, limits>>

\* time passes until the next asyncio.sleep of a session ends
SleepElapses ==
    /\ Sleepers # {}
    /\ now < Min({wake[s] : s \in Sleepers})
    /\ now' = Min({wake[s] : s \in Sleepers})
    /\ UNCHANGED <<orchVars, envVars, site, disk, pc, wake, cycleVars,
                   cycleHist, endVars, gateVars, gateHist, limits>>

\* the steps of one session's task
SessionStep(s) ==
    \/ FetchNotifications(s)
    \/ GateAcquire(s)
    \/ GateWake(s)
    \/ ResponseOk(s)
    \/ ResponseError(s)
    \/ AdapterListing(s)
    \/ AdapterBody(s)
    \/ DirectResponse(s)
    \/ AdapterRaises(s)
    \/ NotifierCall(s)
    \/ PaceWake(s)
    \/ AckItem(s)
    \/ FinishCycle(s)

\* one session per iteration, over several iterations
Next ==
    \/ OrchBuild
    \/ BuildRaises
    \/ GatherDone
    \/ OrchWake
    \/ Tick
    \/ SleepElapses
    \/ \E s \in Sessions : SessionStep(s)

Spec == Init /\ [][Next]_vars

(***************************************************************************)
(* Two cookie files: two sessions run concurrently in one asyncio.gather.  *)
(***************************************************************************)
\* the cookie directory: two cookie files of one tracker, or of two
InitTrackers ==
    {[s \in Sessions |-> "TorrentDay"],
     [s \in Sessions |-> IF s = "c1" THEN "TorrentDay" ELSE "AmigosShareClub"]}

\* both sessions are due and their state files, where they exist, are
\* readable; each inbox lists at most one unread message
InitPair ==
    /\ cookies = Sessions
    /\ tracker \in InitTrackers
    /\ site \in [Sessions -> DistinctSeqs(Ids, 1)]
    /\ disk \in [Trackers -> {f \in InitFiles :
                                 /\ ~Unreadable(f)
                                 /\ Len(f.processed_ids) <= 1
                                 /\ IsDue(EPOCH, f.last_run, scrape_interval)}]
    /\ InitIntervals
    /\ InitConfigured
    /\ InitRest

\* one iteration of main(): the sessions of one gather
NextPair ==
    \/ OrchBuild
    \/ GatherDone
    \/ SleepElapses
    \/ \E s \in Sessions : SessionStep(s) \/ GateRecord(s)

SpecPair == InitPair /\ [][NextPair]_vars

(***************************************************************************)
(* The two sessions under a fair scheduler.  The asyncio event loop runs   *)
(* every ready task in turn, asyncio.Lock wakes its waiters in the order   *)
(* they arrived, an asyncio.sleep ends when its time has passed and a      *)
(* request ends with a response or with an error (the timeout of           *)
(* base.py:225).                                                           *)
(***************************************************************************)
\* a TorrentDay and an AmigosShareClub session, both due, both with a state
\* file; each inbox is empty or lists one new message
InitFair ==
    /\ cookies = Sessions
    /\ tracker = [s \in Sessions |->
                     IF s = "c1" THEN "TorrentDay" ELSE "AmigosShareClub"]
    /\ site \in [Sessions -> {<<>>, <<43>>}]
    /\ disk = [t \in Trackers |->
                  FileOf([processed_ids |-> <<42>>,
                          last_run |-> EPOCH - CONFIG_INTERVAL])]
    /\ InitIntervals
    /\ InitConfigured
    /\ InitRest

Fairness ==
    /\ WF_vars(SleepElapses)
    /\ \A s \in Sessions :
          /\ WF_vars(SessionStep(s) \/ GateRecord(s))
          /\ SF_vars(GateAcquire(s))

SpecFair == InitFair /\ [][NextPair]_vars /\ Fairness

(***************************************************************************)
(* The process from its start, over the configurations a user can write:   *)
(* the module-level check of ptn.py, then one iteration of one session.    *)
(***************************************************************************)
\* values of REQUEST_DELAY and of TIMEOUT in config.py
DelayValues == {Missing, Text, Num(-1), Num(REQUEST_DELAY), Num(2 * REQUEST_DELAY)}
TimeoutValues == {Missing, Text, Num(-1), Num(2 * TIMEOUT)}

\* any config.py, a cookie file that loads or does not; the tracker is due
\* and its inbox lists one new message
InitConfig ==
    /\ cookies = {"c1"}
    /\ \E t \in Trackers : tracker = [s \in Sessions |-> t]
    /\ site = [s \in Sessions |-> IF s \in cookies THEN <<43>> ELSE <<>>]
    /\ disk = [t \in Trackers |->
                  IF t = tracker["c1"]
                  THEN FileOf([processed_ids |-> <<42>>,
                               last_run |-> EPOCH - CONFIG_INTERVAL])
                  ELSE NoFile]
    /\ settings \in [TELEGRAM_BOT_TOKEN : {"", "set"},
                      TELEGRAM_CHAT_ID : {"", "set"},
                      DISCORD_WEBHOOK_URL : {"", "set"},
                      REQUEST_DELAY : DelayValues, TIMEOUT : TimeoutValues]
    /\ cookie_ok \in [Sessions -> BOOLEAN]
    /\ \A s \in Sessions \ cookies : cookie_ok[s]
    /\ startup = "none"
    /\ InitIntervals
    /\ InitRest

\* ptn.py:48-58: the settings are read when the module is loaded; without
\* TELEGRAM_BOT_TOKEN or TELEGRAM_CHAT_ID the process prints an error and
\* calls exit(1)
Startup ==
    /\ startup = "none"
    /\ startup' = IF startup_accepts(settings) THEN "running" ELSE "exit"
    /\ UNCHANGED <<now, orchVars, cookies, tracker, requested, configured,
                   effective, backlog, settings, cookie_ok, site, disk, pc,
                   wake, cycleVars, cycleHist, endVars, gateVars, gateHist,
                   limits>>

NextConfig ==
    \/ Startup
    \/ OrchBuild
    \/ GatherDone
    \/ SleepElapses
    \/ \E s \in Sessions : SessionStep(s)

SpecConfig == InitConfig /\ [][NextConfig]_vars

(***************************************************************************)
(* The effective scrape interval: BaseTracker.__init__ line 40 over the   *)
(* intervals an adapter can request and config.py can set.                 *)
(***************************************************************************)
Intervals == {450 * k : k \in 1..MaxIntervalSteps}

\* an adapter about to construct its session
InitInterval ==
    /\ cookies = {"c1"}
    /\ tracker = [s \in Sessions |-> "TorrentDay"]
    /\ site = [s \in Sessions |-> <<>>]
    /\ disk = [t \in Trackers |-> NoFile]
    /\ requested \in Intervals
    /\ configured \in Intervals
    /\ effective = 0
    /\ InitConfigured
    /\ InitRest

\* base.py:40  self.scrape_interval = self.get_scrape_interval(scrape_interval)
SetScrapeInterval ==
    /\ effective = 0
    /\ effective' = get_scrape_interval(requested, configured)
    /\ UNCHANGED <<now, orchVars, cookies, tracker, requested, configured,
                   backlog, settings, cookie_ok, startup, site, disk, pc, wake,
                   cycleVars, cycleHist, endVars, gateVars, gateHist, limits>>

NextInterval == SetScrapeInterval

SpecInterval == InitInterval /\ [][NextInterval]_vars

(***************************************************************************)
(* Properties.                                                             *)
(***************************************************************************)
\* the session has left fetch_notifications' first line behind
Checked(s) == pc[s] \notin {"none", "start"}

\* how often the cycle of s invoked the sink for the Item id
CallCount(s, id, sink) ==
    Cardinality({k \in DOMAIN calls[s] :
                    calls[s][k].id = id /\ calls[s][k].sink = sink})

\* C1: in a cycle no notifier is invoked for an Item whose id was in
\* processed_ids when the cycle started.
C1_NoRedelivery ==
    \A s \in cookies : \A k \in DOMAIN calls[s] :
        calls[s][k].id \notin Range(preState[s].processed_ids)

\* C2: a session constructed while no state file existed invokes no
\* notifier in its cycle, and when the cycle has completed the ids of all
\* returned Items are in processed_ids.
C2_FirstRunSilent ==
    \A s \in cookies :
        noFile[s] =>
            /\ calls[s] = <<>>
            /\ outcome[s] = "ok" =>
                 Range(all_items[s]) \subseteq Range(state[s].processed_ids)

\* C3: the send times of two consecutive requests that went through the
\* rate limiter differ by at least REQUEST_DELAY.
C3_MinDelayBetweenSends ==
    Len(sendTimes) = 2 => sendTimes[2] - sendTimes[1] >= REQUEST_DELAY

\* C4: at most one request issued through the rate limiter is in flight
\* process-wide at any time.
C4_OneRequestInFlight == Cardinality(inflight) <= 1

AdapterRaised(s) ==
    pc[s] = "done" /\ outcome[s] = "failed" /\ calls[s] = <<>>

\* C6: when the adapter call of one of two due sessions raises and the
\* other session succeeds, the failing session keeps its pre-cycle state in
\* memory and on disk and the succeeding session's updates are committed.
C6_SessionsIsolated ==
    \A s, u \in cookies :
        (s # u /\ AdapterRaised(s) /\ outcome[u] = "ok") =>
            /\ state[s] = preState[s]
            /\ disk[tracker[s]] = FileOf(preState[s])
            /\ state[u].last_run = endTime[u]
            /\ Range(all_items[u]) \subseteq Range(state[u].processed_ids)
            /\ disk[tracker[u]] = FileOf(state[u])

\* C7: an error raised inside a session's cycle never leaves the session's
\* task, and asyncio.gather returns to main() only when every session of
\* the iteration has run to its end.
C7_ErrorsStayInSession ==
    /\ \A s \in cookies : pc[s] # "raised"
    /\ orchPc = "sleep" => \A s \in cookies : pc[s] = "done"

\* one session's cycle failed, the other session went on and completed its
\* cycle later; the orchestrator is past the gather
C7_Witness ==
    \E s, u \in cookies :
        /\ orchPc = "sleep"
        /\ outcome[s] = "failed"
        /\ outcome[u] = "ok"
        /\ calls[u] # <<>>
        /\ endTime[u] > endTime[s]

\* C8: when a sink failed while delivering an Item, every configured sink
\* has still been invoked for every returned Item when the cycle is over,
\* last_run is updated and the state persisted.
C8_SinkFailureTolerated ==
    \A s \in cookies :
        (pc[s] = "done" /\ \E k \in DOMAIN calls[s] : calls[s][k].result = "raise") =>
            /\ \A i \in Range(all_items[s]) : \A j \in DOMAIN Sinks :
                  CallCount(s, i, Sinks[j]) >= 1
            /\ state[s].last_run = endTime[s]
            /\ disk[tracker[s]] = FileOf(state[s])

\* C9: processed_ids never holds more than MAX_PROCESSED entries, in the
\* memory of a session and in its state file.
C9_ProcessedIdsBounded ==
    /\ \A s \in Sessions : Len(state[s].processed_ids) <= MAX_PROCESSED
    /\ \A t \in Trackers : Len(disk[t].processed_ids) <= MAX_PROCESSED

\* a full list took one more id: the oldest id has been dropped
C9_Witness ==
    \E s \in cookies :
        /\ Len(state[s].processed_ids) = MAX_PROCESSED
        /\ preState[s].processed_ids = OldIds(MAX_PROCESSED - 1)
        /\ state[s].processed_ids[1] # OldIds(1)[1]
        /\ state[s].processed_ids[MAX_PROCESSED] \in Ids

\* last_run as fetch_notifications read it
LastRunSeen(s) ==
    IF outcome[s] = "skipped" THEN state[s].last_run
    ELSE preState[s].last_run

\* C10: a session runs a cycle exactly when now - last_run >= its scrape
\* interval, and a session checked before the scrape interval has elapsed
\* since the completion of its last successful cycle runs no cycle.
C10_RunsIffDue ==
    \A s \in cookies :
        Checked(s) =>
            /\ outcome[s] # "skipped"
                 <=> startTime[s] - LastRunSeen(s) >= scrape_interval
            /\ (lastOk[s] > 0 /\ startTime[s] - lastOk[s] < scrape_interval)
                 => outcome[s] = "skipped"

\* the iteration after a successful cycle came before the interval was
\* over and the session ran no cycle
C10_Witness ==
    \E s \in cookies :
        /\ outcome[s] = "skipped"
        /\ lastOk[s] > 0
        /\ startTime[s] - lastOk[s] < scrape_interval
        /\ startTime[s] > lastOk[s]

\* the intervals the sessions of the iteration returned that are positive
PositiveReturns == {ret[s] : s \in cookies} \ {r \in {ret[s] : s \in cookies} : r <= 0}

\* C11: after the sessions of an iteration have run, main() sleeps for the
\* smallest positive interval a fetch_notifications call returned, and
\* for FALLBACK_SLEEP when no call returned a positive interval.
C11_SleepsUntilNextDue ==
    orchPc = "sleep" =>
        sleep_time = IF PositiveReturns = {} THEN FALLBACK_SLEEP
                     ELSE Min(PositiveReturns)

C13_EffectiveIntervalIsMax ==
    effective # 0 =>
        /\ effective >= requested
        /\ effective >= configured
        /\ effective \in {requested, configured}
        /\ (requested = 900 /\ configured = 1800) => effective = 1800
        /\ (requested = 3600 /\ configured = 1800) => effective = 3600

\* a longer request against the global setting was kept
C13_Witness ==
    requested = 3600 /\ configured = 1800 /\ effective = 3600

\* C14: when the adapter returns no Items the cycle completes, last_run is
\* set to the completion time and written to the state file, processed_ids
\* is what it was and no notifier has been invoked.
C14_EmptyCycle ==
    \A s \in cookies :
        (outcome[s] = "ok" /\ all_items[s] = <<>>) =>
            /\ calls[s] = <<>>
            /\ state[s].processed_ids = preState[s].processed_ids
            /\ state[s].last_run = endTime[s]
            /\ state[s].last_run > preState[s].last_run
            /\ disk[tracker[s]] = FileOf(state[s])

\* a tracker with acknowledged ids polled an inbox without unread rows
C14_Witness ==
    \E s \in cookies :
        /\ outcome[s] = "ok"
        /\ all_items[s] = <<>>
        /\ site[s] = <<>>
        /\ preState[s].processed_ids # <<>>

\* C15: a cycle in which a page fetch failed is a failed cycle: last_run
\* and processed_ids are what they were before the cycle, in memory and in
\* the state file.
C15_FetchFailureFailsCycle ==
    \A s \in cookies :
        (pc[s] = "done" /\ fetchFailed[s]) =>
            /\ outcome[s] = "failed"
            /\ state[s] = preState[s]
            /\ disk[tracker[s]].last_run = preState[s].last_run
            /\ disk[tracker[s]].processed_ids = preState[s].processed_ids

\* the Items the cycle of s has dispatched and acknowledged so far
Acked(s) == {all_items[s][k] : k \in 1..(idx[s] - 1)}

\* the state the next session constructed for the tracker of s loads
NextLoaded(s) == load_state(disk[tracker[s]]).state

\* C16: when a cycle fails after at least one Item has been dispatched and
\* acknowledged, the ids of those Items are in the processed_ids the next
\* session of the tracker loads, and last_run has its pre-cycle value.
C16_AcksSurviveFailure ==
    \A s \in cookies :
        (pc[s] = "done" /\ outcome[s] = "failed" /\ Acked(s) # {}) =>
            /\ Acked(s) \subseteq Range(NextLoaded(s).processed_ids)
            /\ NextLoaded(s).last_run = preState[s].last_run

\* C17: no Item the site listed when the tracker was set up without a state
\* file is ever passed to a notifier, in whatever iteration.
C17_BacklogNeverDispatched ==
    \A s \in cookies : \A k \in DOMAIN calls[s] :
        calls[s][k].id \notin backlog[s]

\* C18: two sessions that run in the same iteration never have the same
\* state path, and what a session saved is not lost to the save of another:
\* the ids a completed session holds are in its state file.
C18_OwnStateFile ==
    /\ \A s, u \in cookies :
          (s # u /\ pc[s] # "none" /\ pc[u] # "none") =>
              state_path(tracker[s]) # state_path(tracker[u])
    /\ \A s \in cookies :
          outcome[s] = "ok" =>
              Range(state[s].processed_ids)
                  \subseteq Range(disk[tracker[s]].processed_ids)

\* the second conjunct of C18 alone: an id one session saved is gone from
\* the state file after the other session saved
C18_LostUpdate ==
    \E s, u \in cookies :
        /\ s # u
        /\ outcome[s] = "ok"
        /\ outcome[u] = "ok"
        /\ ~(Range(state[s].processed_ids)
                \subseteq Range(disk[tracker[s]].processed_ids))

\* the ids the cycle of s has added to processed_ids
AddedIds(s) ==
    IF state[s].processed_ids = preState[s].processed_ids THEN {}
    ELSE Range(state[s].processed_ids) \ Range(preState[s].processed_ids)

\* C19: in a cycle that is not first-run, an id the cycle has added to
\* processed_ids belongs to an Item for which every configured notifier
\* has been invoked in that cycle.
C19_AckAfterDispatch ==
    \A s \in cookies :
        (cycles[s] = 1 /\ ~first_run[s]) =>
            \A i \in AddedIds(s) : \A j \in DOMAIN Sinks :
                CallCount(s, i, Sinks[j]) >= 1

\* in the middle of a cycle: the first Item went to both sinks and was
\* acknowledged, the second has not been dispatched yet
C19_Witness ==
    \E s \in cookies :
        /\ pc[s] = "dispatch"
        /\ ~first_run[s]
        /\ Len(all_items[s]) = 2
        /\ idx[s] = 2
        /\ Len(calls[s]) = Len(Sinks)
        /\ AddedIds(s) = {all_items[s][1]}

\* the Item the k-th notifier invocation of a cycle belongs to
ItemOfCall(k) == ((k - 1) \div Len(Sinks)) + 1

\* the sink of the k-th notifier invocation of a cycle
SinkOfCall(k) == ((k - 1) % Len(Sinks)) + 1

\* C20: the notifier invocations of a cycle follow the adapter's Item order
\* and, per Item, the configuration order of the sinks; when an Item is
\* dispatched every Item before it has been acknowledged.
C20_DispatchOrder ==
    \A s \in cookies : \A k \in DOMAIN calls[s] :
        /\ ItemOfCall(k) <= Len(all_items[s])
        /\ calls[s][k].id = all_items[s][ItemOfCall(k)]
        /\ calls[s][k].sink = Sinks[SinkOfCall(k)]
        /\ ItemOfCall(k) <= idx[s]
        /\ \A i \in 1..(ItemOfCall(k) - 1) :
              all_items[s][i] \in Range(state[s].processed_ids)

\* two Items went to Telegram and Discord, one after the other
C20_Witness ==
    \E s \in cookies :
        /\ Len(all_items[s]) = 2
        /\ Len(calls[s]) = 2 * Len(Sinks)
        /\ idx[s] = 2
        /\ calls[s][Len(Sinks) + 1].sink = "telegram"

\* C21: the pacing delay is applied once per dispatched Item and not once
\* per sink: a cycle never starts more pacing sleeps than it has Items, and
\* a completed cycle that is not first-run has started exactly one per Item.
C21_OnePacePerItem ==
    \A s \in cookies :
        ~first_run[s] =>
            /\ paces[s] <= Len(all_items[s])
            /\ outcome[s] = "ok" => paces[s] = Len(all_items[s])

\* C22: when _ack_item adds a new id to a processed_ids list that holds
\* MAX_PROCESSED entries, the oldest id is evicted, the other ids keep
\* their order and the new id becomes the newest entry.
C22_FifoEviction ==
    [][\A s \in cookies :
          (/\ idx'[s] = idx[s] + 1
           /\ Len(state[s].processed_ids) = MAX_PROCESSED
           /\ all_items[s][idx[s]] \notin Range(state[s].processed_ids)) =>
              /\ Len(state'[s].processed_ids) = MAX_PROCESSED
              /\ state'[s].processed_ids[MAX_PROCESSED] = all_items[s][idx[s]]
              /\ \A k \in 1..(MAX_PROCESSED - 1) :
                    state'[s].processed_ids[k] = state[s].processed_ids[k + 1]
              /\ state[s].processed_ids[1] \notin Range(state'[s].processed_ids)]_vars

\* a tracker with 299 acknowledged ids acknowledged two new Items: the
\* first filled the list, the second evicted the oldest id
C22_Witness ==
    \E s \in cookies :
        /\ preState[s].processed_ids = OldIds(MAX_PROCESSED - 1)
        /\ Len(all_items[s]) = 2
        /\ idx[s] = 3
        /\ state[s].processed_ids =
              SubSeq(OldIds(MAX_PROCESSED - 1), 2, MAX_PROCESSED - 1) \o all_items[s]

\* C23: a session constructed over a state file that exists but is not a
\* valid SessionState starts its cycle from the empty state and invokes no
\* notifier in that cycle.
C23_InvalidFileIsFirstRun ==
    \A s \in cookies :
        badFile[s] =>
            /\ cycles[s] = 1 => preState[s] = EmptyState
            /\ calls[s] = <<>>

\* C24: when a request released by the rate limiter has been sent, the
\* shared last-request time is the release time of that request or later,
\* whether the request is still in flight, succeeded or failed.
C24_ReleaseTimeRecorded ==
    sendTimes # <<>> => last_request_time >= sendTimes[Len(sendTimes)]

\* C25: no session has a request to its tracker site in flight that was
\* sent without passing through the rate limiter.
C25_AllRequestsGated ==
    \A s \in cookies : pc[s] # "direct"

\* _fetch_page has returned to the adapter
Returned(s) == pc[s] \in {"page_ok", "page_empty", "page_invalid"}

\* C26: under a fair scheduler every caller of _fetch_page that waits for
\* the request lock is eventually released to send its request, every
\* request sent eventually returns to its caller, whether it succeeded or
\* failed, and the lock, whenever held, is eventually free again.
C26_GateProgress ==
    /\ \A s \in Sessions : (pc[s] = "rl_lock") ~> (pc[s] = "request")
    /\ \A s \in Sessions : (pc[s] = "request") ~> Returned(s)
    /\ (request_lock # None) ~> (request_lock = None)

\* one session waits for the lock while the other holds it in its pacing
\* sleep
C26_Witness ==
    \E s, u \in cookies :
        /\ s # u
        /\ pc[s] = "rl_lock"
        /\ request_lock = u
        /\ pc[u] = "rl_sleep"

C28_NoTerminalState ==
    orchPc \in {"build", "gather", "sleep"}

\* C29: _fetch_page returns to its caller only with the text of a
\* successful, validated response; after a failed request or a failed
\* validation it does not return (it raises).
C29_FetchPageRaises ==
    \A s \in cookies : Returned(s) => pc[s] = "page_ok"

\* C30: a response without the configured marker string is never handed
\* to the adapter as page content.
C30_InvalidLikeFailure ==
    \A s \in cookies : pc[s] # "page_invalid"

\* C31: startup is rejected exactly when no notification channel is
\* configured: neither the Telegram pair nor the Discord webhook.
C31_RejectsIffNoChannel ==
    startup # "none" =>
        (startup = "exit" <=>
            /\ ~(Truthy(settings.TELEGRAM_BOT_TOKEN)
                  /\ Truthy(settings.TELEGRAM_CHAT_ID))
            /\ ~Truthy(settings.DISCORD_WEBHOOK_URL))

\* what the rate limiter is to use for a configured value: the value when
\* it is a number that is not negative, else the default
ExpectedLimit(v, default) ==
    IF v.kind = "number" /\ v.num >= 0 THEN v.num ELSE default

\* C32: a session inside the rate limiter works with the REQUEST_DELAY and
\* the TIMEOUT of the configuration, each replaced by its default (5, 30)
\* when it is missing, not a number or negative.
C32_LimitsFromConfig ==
    \A s \in cookies :
        pc[s] \in {"rl_sleep", "request"} =>
            /\ limits[s].delay = ExpectedLimit(settings.REQUEST_DELAY, REQUEST_DELAY)
            /\ limits[s].timeout = ExpectedLimit(settings.TIMEOUT, TIMEOUT)

\* C33: a cookie file that cannot be read or parsed aborts neither the
\* construction of its session nor the orchestrator: the session exists
\* with an open client and an empty cookie set, and it runs its cycle
C33_UnreadableCookieProceeds ==
    \A s \in cookies :
        ~cookie_ok[s] /\ iter >= 1 =>
            /\ orchPc # "crashed"
            /\ pc[s] # "none"
            /\ client[s] # "none"
            /\ cookie_jar(s) = "empty"
            /\ pc[s] = "done" => cycles[s] = 1 /\ outcome[s] \in {"ok", "failed"}

\* a session whose cookie file was unreadable completed its cycle
C33_Witness ==
    \E s \in cookies :
        /\ ~cookie_ok[s]
        /\ cookie_jar(s) = "empty"
        /\ cycles[s] = 1
        /\ outcome[s] = "ok"
        /\ client[s] = "closed"

\* C34: whenever a session is not inside process() the SessionState in
\* its file equals its in-memory state (processed_ids and last_run),
\* after a cycle that succeeded and after one that failed
C34_FileEqualsMemory ==
    \A s \in cookies :
        pc[s] \in {"start", "done"} /\ ~badFile[s] =>
            disk[tracker[s]] = FileOf(state[s])

\* a request of the session is on the wire: through the rate limiter
\* (base.py:225) or straight from the adapter (AmigosShareClub.py:50)
Requesting(s) == s \in inflight \/ pc[s] \in {"request", "direct"}

\* C35: no HTTP request is issued on a client that was closed: a request
\* is only ever on the wire of an open client, and a session instance
\* runs at most one cycle
C35_NoRequestAfterClose ==
    \A s \in cookies :
        /\ Requesting(s) => client[s] = "open"
        /\ cycles[s] <= 1

\* the instance built in the second iteration sends a request, on the
\* client its own constructor opened
C35_Witness ==
    \E s \in cookies :
        /\ iter = 2
        /\ Requesting(s)
        /\ client[s] = "open"
        /\ cycles[s] = 1

\* C36: every client a constructed session opened is closed in the end,
\* also the client of a session that was not due: once gather has
\* returned and main() sleeps, the iteration has left no client open
C36_ClientsClosed ==
    orchPc = "sleep" => \A s \in cookies : client[s] # "open"

\* C37: a fetch_notifications call on a session that is not due changes
\* nothing: no cycle, no adapter call, no notifier call, no request and
\* no _fetch_page call, and the state in memory is still the state the
\* file holds
C37_NotDueChangesNothing ==
    \A s \in cookies :
        Checked(s) /\ startTime[s] - LastRunSeen(s) < scrape_interval =>
            /\ cycles[s] = 0
            /\ all_items[s] = <<>>
            /\ calls[s] = <<>>
            /\ ~Requesting(s)
            /\ limits[s] = NoLimits
            /\ disk[tracker[s]] = FileOf(state[s])

\* a session was checked before its interval was over and returned
C37_Witness ==
    \E s \in cookies :
        /\ pc[s] = "done"
        /\ outcome[s] = "skipped"
        /\ startTime[s] - state[s].last_run < scrape_interval
        /\ ret[s] > 0
        /\ orchPc = "sleep"

\* the list holds no id twice
NoDup(q) == Cardinality(Range(q)) = Len(q)

\* C38: processed_ids never holds the same id twice: an _ack_item call on
\* a duplicate-free list leaves it duplicate-free, and acknowledging an id
\* the list already holds leaves the list as it was, content and order
C38_NoDuplicateIds ==
    [][\A s \in cookies :
          idx'[s] = idx[s] + 1 =>
              LET old == state[s].processed_ids
                  new == state'[s].processed_ids
                  item == all_items[s][idx[s]]
              IN  /\ NoDup(old) => NoDup(new)
                  /\ item \in Range(old) => new = old]_vars

\* TorrentDay listed a message whose id the state file already held; the
\* Item was dispatched and acknowledged and the list is what it was
C38_Witness ==
    \E s \in cookies :
        /\ idx[s] = 2
        /\ Len(preState[s].processed_ids) = 1
        /\ all_items[s][1] = preState[s].processed_ids[1]
        /\ state[s].processed_ids = preState[s].processed_ids

\* C39: a configuration that load_config accepts gives process() a
\* non-empty list of notifiers, so that no Item is acknowledged in a cycle
\* that is not a first run without a notifier having been invoked for it
C39_AcceptedConfigNotifies ==
    load_config_accepts(settings) =>
        /\ Len(notifiers) >= 1
        /\ \A s \in cookies :
              ~first_run[s] =>
                  \A k \in 1..(idx[s] - 1) :
                      \E c \in 1..Len(calls[s]) :
                          calls[s][c].id = all_items[s][k]

\* with Telegram as the only channel an Item was dispatched to it and
\* acknowledged
C39_Witness ==
    \E s \in cookies :
        /\ ~Truthy(settings.DISCORD_WEBHOOK_URL)
        /\ load_config_accepts(settings)
        /\ notifiers = <<"telegram">>
        /\ idx[s] = 2
        /\ Len(calls[s]) = 1
        /\ calls[s][1].id = all_items[s][1]
        /\ calls[s][1].sink = "telegram"

====
